---------------------------- MODULE Spec2Model ----------------------------
(***************************************************************************)
(* Model of the exec2 telegraf plugin (plugins/inputs/exec2/exec.go).      *)
(*                                                                         *)
(* One Exec2 object is shared by the collection side (Init, Gather and the *)
(* ProcessCommand goroutines a Gather launches) and by the output side     *)
(* (Write).  Strings are sequences of one-character strings, so that       *)
(* fmt.Sprintf, strings.SplitN, strings.Split, strings.Join,               *)
(* strconv.FormatFloat and filepath.Glob are computed, not assumed.        *)
(*                                                                         *)
(* Spec runs Init, Write calls and Gather cycles (one cycle at a time)     *)
(* with their goroutines; FairSpec adds fair scheduling.  OverlapSpec      *)
(* takes the statements of Gather and Write that touch Exec2 outside the   *)
(* mutex one by one, with Gather calls that overlap.  ResolveSpec applies  *)
(* the two resolver loops, and TruncSpec applies truncate, to inputs of    *)
(* their own.                                                              *)
(***************************************************************************)
EXTENDS Integers, Sequences, FiniteSets, Bags, TLC

(***************************************************************************)
(* Bounds of the model.                                                    *)
(***************************************************************************)
\* number of Write calls (they may all run concurrently)
MaxWrites == 2
\* number of Gather calls (one collection cycle each, one after the other)
MaxCycles == 2
\* largest number of metrics the parser returns for one command output
MaxMetrics == 1
\* number of Gather calls that overlap one another
MaxCalls == 2
\* longest CommandSpec list handed to the resolvers on their own
MaxSpecs == 2
\* how far from its ends and from the cap a stderr buffer's length and its
\* newline are varied
Slack == 3
\* const MaxStderrBytes
MaxStderrBytes == 512
\* most goroutines the configurations and batches explored give one cycle
MaxUnits == 3

(***************************************************************************)
(* Strings.                                                                *)
(***************************************************************************)
Empty == <<>>
\* the value a Go map lookup reports with ok = false / a metric without tag
NoPort == <<"<", "n", "o", "n", "e", ">">>

\* index of the first occurrence of character ch in s at or after i, 0 if none
RECURSIVE IndexFrom(_, _, _)
IndexFrom(s, ch, i) ==
    IF i > Len(s) THEN 0
    ELSE IF s[i] = ch THEN i
    ELSE IndexFrom(s, ch, i + 1)

Contains(s, ch) == IndexFrom(s, ch, 1) # 0

\* strings.SplitN(s, " ", 2): at most two pieces, cut at the first space
SplitN2(s) ==
    LET i == IndexFrom(s, " ", 1)
    IN  IF i = 0 THEN <<s>>
        ELSE <<SubSeq(s, 1, i - 1), SubSeq(s, i + 1, Len(s))>>

\* strings.Split(s, ","): every piece between commas, empty pieces included
RECURSIVE Split(_)
Split(s) ==
    LET i == IndexFrom(s, ",", 1)
    IN  IF i = 0 THEN <<s>>
        ELSE <<SubSeq(s, 1, i - 1)>> \o Split(SubSeq(s, i + 1, Len(s)))

\* strings.Join([]string{a, b}, " ")
Join2(a, b) == a \o <<" ">> \o b

\* fmt's notes for a missing operand, surplus operands and a dangling '%'
FmtMissing == <<"%", "!", "s", "(", "M", "I", "S", "S", "I", "N", "G", ")">>
FmtNoVerb == <<"%", "!", "(", "N", "O", "V", "E", "R", "B", ")">>
FmtExtra(arg) ==
    <<"%", "!", "(", "E", "X", "T", "R", "A", " ",
      "s", "t", "r", "i", "n", "g", "=">> \o arg \o <<")">>

\* fmt.Sprintf(pat, arg) with one string operand, for the verbs %s and %%
RECURSIVE SprintfFrom(_, _, _, _)
SprintfFrom(pat, i, arg, used) ==
    IF i > Len(pat) THEN (IF used THEN <<>> ELSE FmtExtra(arg))
    ELSE IF pat[i] # "%" THEN <<pat[i]>> \o SprintfFrom(pat, i + 1, arg, used)
    ELSE IF i = Len(pat) THEN FmtNoVerb \o SprintfFrom(pat, i + 1, arg, used)
    ELSE IF pat[i + 1] = "%" THEN <<"%">> \o SprintfFrom(pat, i + 2, arg, used)
    ELSE (IF used THEN FmtMissing ELSE arg) \o SprintfFrom(pat, i + 2, arg, TRUE)

Sprintf(pat, arg) == SprintfFrom(pat, 1, arg, FALSE)

\* decimal digits of a natural number
Digit(d) == <<"0", "1", "2", "3", "4", "5", "6", "7", "8", "9">>[d + 1]
RECURSIVE Itoa(_)
Itoa(n) == IF n < 10 THEN <<Digit(n)>> ELSE Itoa(n \div 10) \o <<Digit(n % 10)>>

\* strconv.FormatFloat(v, 'f', -1, 64) of a non-negative float64 held in
\* tenths (15 is 1.5): the shortest decimal text, no exponent
FormatFloat(tenths) ==
    IF tenths % 10 = 0 THEN Itoa(tenths \div 10)
    ELSE Itoa(tenths \div 10) \o <<".">> \o <<Digit(tenths % 10)>>

(***************************************************************************)
(* filepath.Glob over the directory the plugin runs in.                    *)
(***************************************************************************)
\* names in the working directory, in the order a directory listing sorts them
FileNames == << <<"g", "a">>, <<"g", "b">>, <<"p">> >>

\* path.Match for patterns made of literal characters and '*'
RECURSIVE Match(_, _)
Match(pat, name) ==
    IF pat = <<>> THEN name = <<>>
    ELSE IF Head(pat) = "*"
         THEN \/ Match(Tail(pat), name)
              \/ name # <<>> /\ Match(pat, Tail(name))
    ELSE name # <<>> /\ Head(name) = Head(pat) /\ Match(Tail(pat), Tail(name))

\* a '[' that is never closed makes the pattern malformed (ErrBadPattern)
GlobFails(token) == Contains(token, "[")
hasMeta(token) == Contains(token, "*") \/ Contains(token, "[")

\* the matches of filepath.Glob(token) when it reports no error
Glob(token) ==
    IF hasMeta(token)
    THEN SelectSeq(FileNames, LAMBDA n : Match(token, n))
    ELSE SelectSeq(FileNames, LAMBDA n : n = token)

(***************************************************************************)
(* Command Set Resolver.  The loop is written twice in the source, once    *)
(* for the static list in Gather and once for the dynamic list in          *)
(* readExCommandsLock; each copy is translated on its own.  A resolution   *)
(* is a record: commands (the resolved command strings, in order), specs   *)
(* (for each command, the CommandSpec it came from) and errors (the specs  *)
(* whose glob failed, one acc.AddError each).                              *)
(***************************************************************************)
NoResolution == [commands |-> <<>>, specs |-> <<>>, errors |-> <<>>]

\* Gather, lines 244-258: the commands one spec contributes, given its matches
GatherExpand(pattern, cmdAndArgs, matches) ==
    IF Len(matches) = 0 THEN <<pattern>>
    ELSE [k \in 1..Len(matches) |->
            IF Len(cmdAndArgs) = 1 THEN matches[k]
            ELSE Join2(matches[k], cmdAndArgs[2])]

\* Gather, lines 231-260
RECURSIVE GatherResolveFrom(_, _, _)
GatherResolveFrom(list, i, r) ==
    IF i > Len(list) THEN r
    ELSE LET pattern == list[i]
             cmdAndArgs == SplitN2(pattern)
         IN  IF GlobFails(cmdAndArgs[1])
             THEN GatherResolveFrom(list, i + 1,
                      [r EXCEPT !.errors = Append(@, pattern)])
             ELSE LET new == GatherExpand(pattern, cmdAndArgs, Glob(cmdAndArgs[1]))
                  IN  GatherResolveFrom(list, i + 1,
                          [r EXCEPT !.commands = @ \o new,
                                    !.specs = @ \o [k \in 1..Len(new) |-> pattern]])

GatherResolve(list) == GatherResolveFrom(list, 1, NoResolution)

\* fault: the arguments of the spec are dropped
ExExpandNoArgs(pattern, cmdAndArgs, matches) ==
    IF Len(matches) = 0 THEN <<pattern>> ELSE matches

\* readExCommandsLock, lines 293-308
ExExpand(pattern, cmdAndArgs, matches) ==
    IF Len(matches) = 0 THEN <<pattern>>
    ELSE [k \in 1..Len(matches) |->
            IF Len(cmdAndArgs) = 1 THEN matches[k]
            ELSE Join2(matches[k], cmdAndArgs[2])]

\* readExCommandsLock, lines 280-310
RECURSIVE ExResolveFrom(_, _, _)
ExResolveFrom(list, i, r) ==
    IF i > Len(list) THEN r
    ELSE LET pattern == list[i]
             cmdAndArgs == SplitN2(pattern)
         IN  IF GlobFails(cmdAndArgs[1])
             THEN ExResolveFrom(list, i + 1,
                      [r EXCEPT !.errors = Append(@, pattern)])
             ELSE LET new == ExExpand(pattern, cmdAndArgs, Glob(cmdAndArgs[1]))
                  IN  ExResolveFrom(list, i + 1,
                          [r EXCEPT !.commands = @ \o new,
                                    !.specs = @ \o [k \in 1..Len(new) |-> pattern]])

ExResolve(list) == ExResolveFrom(list, 1, NoResolution)

(***************************************************************************)
(* Pattern-to-command generation.                                          *)
(***************************************************************************)
\* a Go map: a function from command strings to ports
EmptyMap == [c \in {} |-> NoPort]
MapSet(m, k, v) == [c \in DOMAIN m \cup {k} |-> IF c = k THEN v ELSE m[c]]
Lookup(m, k) == IF k \in DOMAIN m THEN m[k] ELSE NoPort

\* the loops of addPatternCommands (319-324) and Write (368-372): the commands
RECURSIVE PatternCommands(_, _)
PatternCommands(pattern, ports) ==
    IF ports = <<>> THEN <<>>
    ELSE <<Sprintf(pattern, Head(ports))>> \o PatternCommands(pattern, Tail(ports))

\* fault: the key is the pattern followed by the port, not the formatted command
PatternBindingUnformatted(pattern, ports, m) ==
    [c \in DOMAIN m \cup {pattern \o ports[i] : i \in 1..Len(ports)} |->
        IF \E i \in 1..Len(ports) : pattern \o ports[i] = c
        THEN ports[CHOOSE i \in 1..Len(ports) : pattern \o ports[i] = c]
        ELSE m[c]]

\* the same loops: the binding, a later port overwriting an earlier equal key
RECURSIVE PatternBinding(_, _, _)
PatternBinding(pattern, ports, m) ==
    IF ports = <<>> THEN m
    ELSE PatternBinding(pattern, Tail(ports),
                        MapSet(m, Sprintf(pattern, Head(ports)), Head(ports)))

(***************************************************************************)
(* Inputs: configurations of the plugin and batches handed to Write.       *)
(***************************************************************************)
\* the configurations (the exported fields and the parser kind) explored
Configs ==
    { \* a pattern whose first token matches no glob
      [Commands |-> <<>>, Command |-> <<>>,
       Pattern |-> <<"p", " ", "%", "s">>, Ports |-> <<"1">>, nagios |-> FALSE],
      \* a glob with two matches, a malformed glob, the legacy Command, no Pattern
      [Commands |-> << <<"g", "*", " ", "a">>, <<"[">> >>, Command |-> <<"c">>,
       Pattern |-> <<>>, Ports |-> <<"1", ",", "2">>, nagios |-> FALSE],
      \* a pattern whose first token is a glob with one match, the nagios parser
      [Commands |-> <<>>, Command |-> <<>>,
       Pattern |-> <<"*", "a", " ", "%", "s">>, Ports |-> <<>>, nagios |-> TRUE],
      \* a pattern whose first token is a malformed glob, two static ports
      [Commands |-> << <<"c">> >>, Command |-> <<>>,
       Pattern |-> <<"[", "%", "s">>, Ports |-> <<"1", ",", "2">>, nagios |-> FALSE] }

\* a field of a metric: its Go type and, for a float64, its value in tenths
FloatField(tenths) == [kind |-> "float64", v |-> tenths]
IntField == [kind |-> "int64", v |-> 7]
StringField == [kind |-> "string", v |-> 0]

\* the batches (lists of metrics, each a list of fields) Write is called with
Batches ==
    { <<>>,
      << <<IntField, StringField>> >>,
      << <<FloatField(10)>> >>,
      << <<FloatField(20)>>, <<IntField, FloatField(15)>> >> }

\* Write, lines 348-352: the float64 fields of one metric, formatted
RECURSIVE FieldPorts(_)
FieldPorts(fields) ==
    IF fields = <<>> THEN <<>>
    ELSE (IF Head(fields).kind = "float64"
          THEN <<FormatFloat(Head(fields).v)>> ELSE <<>>)
         \o FieldPorts(Tail(fields))

\* Write, lines 343-354: exPorts, in metric-then-field order
RECURSIVE ExPorts(_)
ExPorts(metrics) ==
    IF metrics = <<>> THEN <<>>
    ELSE FieldPorts(Head(metrics)) \o ExPorts(Tail(metrics))

(***************************************************************************)
(* State.                                                                  *)
(***************************************************************************)
VARIABLES
    Commands,       \* Exec2.Commands
    Command,        \* Exec2.Command, the legacy single command
    Pattern,        \* Exec2.Pattern
    Ports,          \* Exec2.Ports
    cmds,           \* Exec2.cmds, the static binding
    addedPattern,   \* Exec2.addedPattern
    ExCommands,     \* Exec2.ExCommands, the dynamic list
    ex_cmds,        \* Exec2.ex_cmds, the dynamic binding
    mutext,         \* Exec2.mutext: readers holding it, writer owning it (0: none)
    isNagios,       \* whether Exec2.parser is a *nagios.NagiosParser
    inited,         \* whether Init has been called
    gather,         \* the Gather call in progress: its position and locals
    gatherCalls,    \* Gather calls made so far
    units,          \* the ProcessCommand goroutines of the Gather call
    acc,            \* the accumulator handed to the Gather call
    writes,         \* the Write calls: position and exPorts of each
    lastLocked,     \* history: exPorts of the Write that took the lock last
    legacy,         \* history: Exec2.Command as it was configured
    calls,          \* Gather calls that overlap: position in the prologue
    specList,       \* a CommandSpec list handed to the two resolvers
    resolved,       \* what each resolver made of specList
    buf,            \* a stderr buffer handed to truncate
    shown           \* what truncate returned for buf

vars == <<Commands, Command, Pattern, Ports, cmds, addedPattern, ExCommands,
          ex_cmds, mutext, isNagios, inited, gather, gatherCalls, units, acc,
          writes, lastLocked, legacy, calls, specList, resolved, buf, shown>>

config == <<Pattern, Ports, isNagios, legacy>>
exec2Static == <<Commands, Command, cmds, addedPattern>>
exec2Dynamic == <<ExCommands, ex_cmds>>
gatherSide == <<gather, gatherCalls, units, acc>>
writeSide == <<writes, lastLocked>>
\* the functions that are exercised on their own: the resolvers and truncate
pure == <<specList, resolved, buf, shown>>

Writers == 1..MaxWrites
NoWrite == <<"-">>

IdleGather ==
    [pc |-> "idle", commands |-> NoResolution, wg |-> 0, added |-> 0,
     snap |-> EmptyMap, late |-> 0, errs |-> 0, ret |-> "-"]
IdleWrite == [pc |-> "idle", ports |-> <<>>]
EmptyAcc == [metrics |-> EmptyBag, errors |-> EmptyBag]

\* Gather calls that may overlap one another (the one Exec2 of init() can be
\* handed out more than once)
Callers == 1..MaxCalls
IdleCall == [pc |-> "idle", slice |-> <<>>]
IdleCalls == [g \in Callers |-> IdleCall]

\* no resolver has been applied, truncate has not been applied
Unresolved == [static |-> NoResolution, dynamic |-> NoResolution, did |-> {}]
Unshown == <<"-">>

\* NewExec2 (72-77) followed by the loading of configuration k
Loaded(k) ==
    /\ Commands = k.Commands
    /\ Command = k.Command
    /\ Pattern = k.Pattern
    /\ Ports = k.Ports
    /\ isNagios = k.nagios
    /\ legacy = k.Command
    /\ cmds = EmptyMap
    /\ addedPattern = FALSE
    /\ ExCommands = <<>>
    /\ ex_cmds = EmptyMap
    /\ mutext = [readers |-> 0, w |-> 0]
    /\ inited = FALSE
    /\ gather = IdleGather
    /\ gatherCalls = 0
    /\ units = <<>>
    /\ acc = EmptyAcc
    /\ writes = [w \in Writers |-> IdleWrite]
    /\ lastLocked = NoWrite
    /\ calls = IdleCalls

\* NewExec2 (72-77) followed by the loading of one configuration
NewExec2 ==
    /\ \E k \in Configs : Loaded(k)
    /\ specList = <<>>
    /\ resolved = Unresolved
    /\ buf = <<>>
    /\ shown = Unshown

(***************************************************************************)
(* Init and addPatternCommands.                                            *)
(***************************************************************************)
\* fault: the set is generated by every Init
addPatternGuardAlways == Pattern # <<>> /\ Ports # <<>>
\* addPatternCommands, line 315: whether the static set is generated now
addPatternGuard == Pattern # <<>> /\ Ports # <<>> /\ ~addedPattern

\* Init (380-384) with addPatternCommands (314-327)
Init ==
    /\ inited' = TRUE
    /\ IF addPatternGuard
       THEN LET ports == Split(Ports)
            IN  /\ cmds' = PatternBinding(Pattern, ports, EmptyMap)
                /\ Commands' = Commands \o PatternCommands(Pattern, ports)
                /\ addedPattern' = TRUE
                /\ UNCHANGED Command
       ELSE UNCHANGED exec2Static
    /\ UNCHANGED <<config, calls, pure, exec2Dynamic, mutext, gatherSide, writeSide>>

(***************************************************************************)
(* sync.RWMutex.  Lock first takes the writers' mutex and announces the    *)
(* writer, which turns new readers away, then waits for the readers that   *)
(* hold the lock to leave.                                                 *)
(***************************************************************************)
\* RLock returns: no writer owns or awaits the lock
CanRLock(m) == m.w = 0
\* fault: writers do not exclude one another
CanAnnounceAlways(m) == TRUE
\* Lock, first half: no other writer owns or awaits the lock
CanAnnounce(m) == m.w = 0
\* fault: the writer does not wait for the readers
CanLockNoWait(m) == TRUE
\* Lock, second half: the readers have left
CanLock(m) == m.readers = 0

RLocked(m) == [m EXCEPT !.readers = @ + 1]
\* fault: the deferred RUnlock is missing
RUnlockedLeak(m) == m
RUnlocked(m) == [m EXCEPT !.readers = @ - 1]

(***************************************************************************)
(* Write.                                                                  *)
(***************************************************************************)
\* fault: a batch without float64 fields resets the dynamic set
WriteGuardAnyBatch(exPorts) == Pattern # <<>>
\* Write, line 358: whether the call replaces the dynamic set
WriteGuard(exPorts) == Pattern # <<>> /\ Len(exPorts) > 0

\* fault: the previous list is kept and appended to
WriteClearKeeps(old) == old
\* Write, line 364: e.ExCommands = make([]string, 0)
WriteClear(old) == <<>>

\* Write, lines 341-360 and 377: the batch is read; the call returns at once
\* when the guard fails, and enters Lock otherwise.  A call that finds the
\* writers' mutex taken waits inside Lock having changed nothing, which is
\* the same as the call being made later: a call is modelled from the moment
\* Lock takes the writers' mutex and announces the writer.  Calls are
\* numbered in the order they are made.
WriteStart(w, metrics) ==
    /\ inited
    /\ writes[w].pc = "idle"
    /\ \A v \in 1..(w - 1) : writes[v].pc # "idle"
    /\ LET exPorts == ExPorts(metrics)
       IN  IF WriteGuard(exPorts)
           THEN /\ CanAnnounce(mutext)
                /\ mutext' = [mutext EXCEPT !.w = w]
                /\ writes' = [writes EXCEPT ![w] = [pc |-> "pending", ports |-> exPorts]]
           ELSE /\ writes' = [writes EXCEPT ![w] = [pc |-> "noop", ports |-> <<>>]]
                /\ UNCHANGED mutext
    /\ UNCHANGED <<config, calls, pure, exec2Static, exec2Dynamic, inited, gatherSide,
                   lastLocked>>

\* Write, lines 360-372: Lock returns, the list is cleared and the binding rebuilt
WriteLock(w) ==
    /\ writes[w].pc = "pending"
    /\ CanLock(mutext)
    /\ ExCommands' = WriteClear(ExCommands)
    /\ ex_cmds' = PatternBinding(Pattern, writes[w].ports, EmptyMap)
    /\ lastLocked' = writes[w].ports
    /\ writes' = [writes EXCEPT ![w].pc = "filled"]
    /\ UNCHANGED <<config, calls, pure, exec2Static, mutext, inited, gatherSide>>

\* Write, lines 374, 361 and 377: the generated commands are appended to the
\* list; the deferred Unlock; the return
WriteReturn(w) ==
    /\ writes[w].pc = "filled"
    /\ ExCommands' = ExCommands \o PatternCommands(Pattern, writes[w].ports)
    /\ mutext' = [mutext EXCEPT !.w = 0]
    /\ writes' = [writes EXCEPT ![w] = [pc |-> "done", ports |-> <<>>]]
    /\ UNCHANGED <<config, calls, pure, exec2Static, ex_cmds, inited, gatherSide, lastLocked>>

(***************************************************************************)
(* The accumulator: bags of what AddMetric and AddError were handed.  An   *)
(* entry names the goroutine it came from (0: Gather itself).              *)
(***************************************************************************)
\* fault: an error is handed to the accumulator twice
AddErrorTwice(a, unit, kind, about) ==
    [a EXCEPT !.errors = @ (+) SetToBag({[unit |-> unit, kind |-> kind, about |-> about]})
                           (+) SetToBag({[unit |-> unit, kind |-> kind, about |-> about]})]

AddError(a, unit, kind, about) ==
    [a EXCEPT !.errors = @ (+) SetToBag({[unit |-> unit, kind |-> kind, about |-> about]})]

AddMetric(a, unit, command, port) ==
    [a EXCEPT !.metrics = @ (+) SetToBag({[unit |-> unit, cmd |-> command, port |-> port]})]

\* fault: only the first glob failure of a list is reported
AddGlobErrorsOnce(a, specs) ==
    IF specs = <<>> THEN a ELSE AddError(a, 0, "glob", Head(specs))

\* one acc.AddError per glob failure (lines 240 and 289)
RECURSIVE AddGlobErrors(_, _)
AddGlobErrors(a, specs) ==
    IF specs = <<>> THEN a
    ELSE AddGlobErrors(AddError(a, 0, "glob", Head(specs)), Tail(specs))

(***************************************************************************)
(* Gather.                                                                 *)
(***************************************************************************)
\* a ProcessCommand goroutine at its start; spec and origin record where
\* the command came from
NewUnit(command, spec, origin) ==
    [cmd |-> command, spec |-> spec, origin |-> origin, pc |-> "run",
     runErr |-> "-", parse |-> "-", n |-> 0, extra |-> 0, left |-> 0,
     tag |-> NoPort, dones |-> 0]

UnitsOf(r, origin) ==
    [k \in 1..Len(r.commands) |-> NewUnit(r.commands[k], r.specs[k], origin)]

\* fault: the dynamic commands are not counted
WgCountStaticOnly(commands, exCommands) == Len(commands)
\* Gather, line 264: the count handed to wg.Add
WgCount(commands, exCommands) == Len(commands) + Len(exCommands)

\* fault: a reported error is also returned
GatherResultError(a) == IF a.errors # EmptyBag THEN "err" ELSE "nil"
\* Gather, line 272: the value returned
GatherResult(a) == "nil"

\* Gather, lines 222-260: the legacy Command is folded in and the static
\* list resolved.  A call starts when the previous one has returned.
GatherStart ==
    /\ inited
    /\ gather.pc \in {"idle", "returned"}
    /\ gatherCalls < MaxCycles
    /\ LET list == IF Command # <<>> THEN Append(Commands, Command) ELSE Commands
           r == GatherResolve(list)
       IN  /\ Commands' = list
           /\ Command' = <<>>
           /\ gather' = [IdleGather EXCEPT !.pc = "resolved", !.commands = r]
           /\ acc' = AddGlobErrors(EmptyAcc, r.errors)
    /\ units' = <<>>
    /\ gatherCalls' = gatherCalls + 1
    /\ UNCHANGED <<config, calls, pure, cmds, addedPattern, exec2Dynamic, mutext, inited,
                   writeSide>>

\* readExCommandsLock, line 277
GatherRLock ==
    /\ gather.pc = "resolved"
    /\ CanRLock(mutext)
    /\ mutext' = RLocked(mutext)
    /\ gather' = [gather EXCEPT !.pc = "rlocked"]
    /\ UNCHANGED <<config, calls, pure, exec2Static, exec2Dynamic, inited, gatherCalls, units,
                   acc, writeSide>>

\* readExCommandsLock, lines 278-310, and Gather, lines 262-270: the dynamic
\* list is resolved, the lock released, and one goroutine started per command
GatherLaunch ==
    /\ gather.pc = "rlocked"
    /\ LET r == ExResolve(ExCommands)
           n == WgCount(gather.commands.commands, r.commands)
       IN  /\ acc' = AddGlobErrors(acc, r.errors)
           /\ units' = UnitsOf(gather.commands, "static") \o UnitsOf(r, "dynamic")
           /\ gather' = [gather EXCEPT !.pc = "waiting", !.wg = n, !.added = n,
                                       !.snap = ex_cmds]
    /\ mutext' = RUnlocked(mutext)
    /\ UNCHANGED <<config, calls, pure, exec2Static, exec2Dynamic, inited, gatherCalls,
                   writeSide>>

\* the goroutines that have not called wg.Done
Unfinished == {i \in DOMAIN units : units[i].pc # "done"}

\* Gather, lines 271-272: wg.Wait returns when the counter is zero.  The
\* call's locals and its accumulator leave the model; what stays is the
\* value returned, the count given to wg.Add, how many goroutines were still
\* running (late) and how many errors the accumulator had been handed (errs).
GatherReturn ==
    /\ gather.pc = "waiting"
    /\ gather.wg = 0
    /\ gather' = [IdleGather EXCEPT !.pc = "returned", !.ret = GatherResult(acc),
                                    !.added = gather.added,
                                    !.late = Cardinality(Unfinished),
                                    !.errs = BagCardinality(acc.errors)]
    /\ units' = <<>>
    /\ acc' = EmptyAcc
    /\ UNCHANGED <<config, calls, pure, exec2Static, exec2Dynamic, mutext, inited, gatherCalls,
                   writeSide>>

(***************************************************************************)
(* ProcessCommand, addMetric and addExMetric.                              *)
(***************************************************************************)
\* what e.runner.Run can return as its error
RunErrs == {"nil", "exit", "timeout"}
\* what e.parser.Parse can return: an error, or a list of metrics
ParseResults ==
    {[err |-> TRUE, n |-> 0]} \cup {[err |-> FALSE, n |-> k] : k \in 0..MaxMetrics}

\* fault: a timeout is not treated as a failed run
ReportsRunErrExitOnly(runErr) == ~isNagios /\ runErr = "exit"
\* ProcessCommand, line 165
ReportsRunErr(runErr) == ~isNagios /\ runErr # "nil"

\* ProcessCommand, lines 177-182: nagios.TryAddState may append the state
\* metric when it can read an exit code off runErr
StateMetrics(runErr) == IF isNagios /\ runErr # "timeout" THEN {0, 1} ELSE {0}

\* addMetric, lines 191-193
StaticTag(command, tag) == IF command \in DOMAIN cmds THEN cmds[command] ELSE tag

\* fault: the dynamic binding is not consulted
ExTagSkipped(command, tag) == tag
\* addExMetric, lines 205-207
ExTag(command, tag) == IF command \in DOMAIN ex_cmds THEN ex_cmds[command] ELSE tag

\* ProcessCommand, line 161: the deferred wg.Done
Finished(u) == [u EXCEPT !.pc = "done", !.dones = @ + 1]

\* ProcessCommand, lines 160-184: the command runs, its output is parsed
UnitRun(i, runErr, parsed, state) ==
    /\ units[i].pc = "run"
    /\ IF ReportsRunErr(runErr)
       THEN /\ acc' = AddError(acc, i, "run", units[i].cmd)
            /\ units' = [units EXCEPT ![i] = Finished([@ EXCEPT !.runErr = runErr])]
            /\ gather' = [gather EXCEPT !.wg = @ - 1]
       ELSE IF parsed.err
       THEN /\ acc' = AddError(acc, i, "parse", units[i].cmd)
            /\ units' = [units EXCEPT ![i] =
                            Finished([@ EXCEPT !.runErr = runErr, !.parse = "err"])]
            /\ gather' = [gather EXCEPT !.wg = @ - 1]
       ELSE LET u == [units[i] EXCEPT !.runErr = runErr, !.parse = "ok",
                                      !.n = parsed.n, !.extra = state,
                                      !.left = parsed.n + state]
            IN  /\ UNCHANGED acc
                /\ IF u.left = 0
                   THEN /\ units' = [units EXCEPT ![i] = Finished(u)]
                        /\ gather' = [gather EXCEPT !.wg = @ - 1]
                   ELSE /\ units' = [units EXCEPT ![i] = [u EXCEPT !.pc = "tag"]]
                        /\ UNCHANGED gather
    /\ UNCHANGED <<config, calls, pure, exec2Static, exec2Dynamic, mutext, inited, gatherCalls,
                   writeSide>>

\* addMetric, lines 191-195, and addExMetric, line 201: the static lookup,
\* then RLock
UnitRLock(i) ==
    /\ units[i].pc = "tag"
    /\ CanRLock(mutext)
    /\ mutext' = RLocked(mutext)
    /\ units' = [units EXCEPT ![i].pc = "locked",
                              ![i].tag = StaticTag(units[i].cmd, NoPort)]
    /\ UNCHANGED <<config, calls, pure, exec2Static, exec2Dynamic, inited, gather, gatherCalls,
                   acc, writeSide>>

\* addExMetric, lines 202-207, addMetric, line 197, and the loop of
\* ProcessCommand, lines 184-186: the dynamic lookup, RUnlock, AddMetric
UnitTag(i) ==
    /\ units[i].pc = "locked"
    /\ LET port == ExTag(units[i].cmd, units[i].tag)
           u == [units[i] EXCEPT !.left = @ - 1, !.tag = NoPort]
       IN  /\ acc' = AddMetric(acc, i, units[i].cmd, port)
           /\ IF u.left = 0
              THEN /\ units' = [units EXCEPT ![i] = Finished(u)]
                   /\ gather' = [gather EXCEPT !.wg = @ - 1]
              ELSE /\ units' = [units EXCEPT ![i] = [u EXCEPT !.pc = "tag"]]
                   /\ UNCHANGED gather
    /\ mutext' = RUnlocked(mutext)
    /\ UNCHANGED <<config, calls, pure, exec2Static, exec2Dynamic, inited, gatherCalls,
                   writeSide>>

(***************************************************************************)
(* Specifications.                                                         *)
(***************************************************************************)
Next ==
    \/ Init
    \/ \E w \in Writers, metrics \in Batches : WriteStart(w, metrics)
    \/ \E w \in Writers : WriteLock(w)
    \/ \E w \in Writers : WriteReturn(w)
    \/ GatherStart
    \/ GatherRLock
    \/ GatherLaunch
    \/ GatherReturn
    \/ \E i \in DOMAIN units, runErr \in RunErrs, parsed \in ParseResults :
          \E state \in StateMetrics(runErr) : UnitRun(i, runErr, parsed, state)
    \/ \E i \in DOMAIN units : UnitRLock(i)
    \/ \E i \in DOMAIN units : UnitTag(i)

Spec == NewExec2 /\ [][Next]_vars

\* the scheduler keeps running some goroutine that is ready, a command run
\* returns (the per-command timeout), and the Write calls are finitely many
FairSpec == Spec /\ WF_vars(Next)

(***************************************************************************)
(* Calls that overlap.  Gather and Write are taken statement by statement  *)
(* where they touch fields of Exec2 outside the mutex: the prologue of     *)
(* Gather (lines 226-232) and the report Write prints of e.Commands (line  *)
(* 356).  A call in "folded" goes on as GatherRLock, GatherLaunch and      *)
(* GatherReturn describe.  The position of a call is the statement it      *)
(* executes next.                                                          *)
(***************************************************************************)
\* Gather is called (line 222)
GatherCall(g) ==
    /\ inited
    /\ calls[g].pc = "idle"
    /\ \A h \in 1..(g - 1) : calls[h].pc # "idle"
    /\ calls' = [calls EXCEPT ![g] = [pc |-> "test", slice |-> <<>>]]
    /\ UNCHANGED <<config, pure, exec2Static, exec2Dynamic, mutext, inited,
                   gatherSide, writeSide>>

\* Gather, line 226: if e.Command != ""
FoldTest(g) ==
    /\ calls[g].pc = "test"
    /\ calls' = [calls EXCEPT ![g].pc = IF Command # <<>> THEN "load" ELSE "range"]
    /\ UNCHANGED <<config, pure, exec2Static, exec2Dynamic, mutext, inited,
                   gatherSide, writeSide>>

\* Gather, line 227, right-hand side: append(e.Commands, e.Command)
FoldLoad(g) ==
    /\ calls[g].pc = "load"
    /\ calls' = [calls EXCEPT ![g] = [pc |-> "store", slice |-> Append(Commands, Command)]]
    /\ UNCHANGED <<config, pure, exec2Static, exec2Dynamic, mutext, inited,
                   gatherSide, writeSide>>

\* Gather, line 227, the assignment to e.Commands
FoldStore(g) ==
    /\ calls[g].pc = "store"
    /\ Commands' = calls[g].slice
    /\ calls' = [calls EXCEPT ![g] = [pc |-> "clear", slice |-> <<>>]]
    /\ UNCHANGED <<config, pure, Command, cmds, addedPattern, exec2Dynamic, mutext,
                   inited, gatherSide, writeSide>>

\* Gather, line 228: e.Command = ""
FoldClear(g) ==
    /\ calls[g].pc = "clear"
    /\ Command' = <<>>
    /\ calls' = [calls EXCEPT ![g].pc = "range"]
    /\ UNCHANGED <<config, pure, Commands, cmds, addedPattern, exec2Dynamic, mutext,
                   inited, gatherSide, writeSide>>

\* Gather, lines 231-232: the loop header reads e.Commands
FoldRange(g) ==
    /\ calls[g].pc = "range"
    /\ calls' = [calls EXCEPT ![g] = [pc |-> "folded", slice |-> Commands]]
    /\ UNCHANGED <<config, pure, exec2Static, exec2Dynamic, mutext, inited,
                   gatherSide, writeSide>>

\* Write, lines 341-355: the batch is read
WriteCall(w, metrics) ==
    /\ inited
    /\ writes[w].pc = "idle"
    /\ \A v \in 1..(w - 1) : writes[v].pc # "idle"
    /\ writes' = [writes EXCEPT ![w] = [pc |-> "print", ports |-> ExPorts(metrics)]]
    /\ UNCHANGED <<config, calls, pure, exec2Static, exec2Dynamic, mutext, inited,
                   gatherSide, lastLocked>>

\* Write, lines 356-360 and 377: e.Commands is printed, then the guard and
\* Lock as in WriteStart
WritePrint(w) ==
    /\ writes[w].pc = "print"
    /\ IF WriteGuard(writes[w].ports)
       THEN /\ CanAnnounce(mutext)
            /\ mutext' = [mutext EXCEPT !.w = w]
            /\ writes' = [writes EXCEPT ![w].pc = "pending"]
       ELSE /\ writes' = [writes EXCEPT ![w] = [pc |-> "noop", ports |-> <<>>]]
            /\ UNCHANGED mutext
    /\ UNCHANGED <<config, calls, pure, exec2Static, exec2Dynamic, inited, gatherSide,
                   lastLocked>>

\* what the statement a Gather call executes next reads or writes of Exec2,
\* and whether it does so holding the mutex
CallAccess(g) ==
    CASE calls[g].pc = "test" ->
            {[field |-> "Command", write |-> FALSE, locked |-> FALSE]}
      [] calls[g].pc = "load" ->
            {[field |-> "Commands", write |-> FALSE, locked |-> FALSE],
             [field |-> "Command", write |-> FALSE, locked |-> FALSE]}
      [] calls[g].pc = "store" ->
            {[field |-> "Commands", write |-> TRUE, locked |-> FALSE]}
      [] calls[g].pc = "clear" ->
            {[field |-> "Command", write |-> TRUE, locked |-> FALSE]}
      [] calls[g].pc = "range" ->
            {[field |-> "Commands", write |-> FALSE, locked |-> FALSE]}
      [] OTHER -> {}

\* the same for a Write call: line 356 reads e.Commands, lines 364-374 write
\* the dynamic list and binding between Lock and Unlock
WriteAccess(w) ==
    CASE writes[w].pc = "print" ->
            {[field |-> "Commands", write |-> FALSE, locked |-> FALSE]}
      [] writes[w].pc = "filled" ->
            {[field |-> "ExCommands", write |-> TRUE, locked |-> mutext.w = w],
             [field |-> "ex_cmds", write |-> TRUE, locked |-> mutext.w = w]}
      [] OTHER -> {}

OverlapNext ==
    \/ Init
    \/ \E g \in Callers : GatherCall(g)
    \/ \E g \in Callers : FoldTest(g)
    \/ \E g \in Callers : FoldLoad(g)
    \/ \E g \in Callers : FoldStore(g)
    \/ \E g \in Callers : FoldClear(g)
    \/ \E g \in Callers : FoldRange(g)
    \/ \E w \in Writers, metrics \in Batches : WriteCall(w, metrics)
    \/ \E w \in Writers : WritePrint(w)
    \/ \E w \in Writers : WriteLock(w)
    \/ \E w \in Writers : WriteReturn(w)

OverlapSpec == NewExec2 /\ [][OverlapNext]_vars

(***************************************************************************)
(* The two resolvers on their own: each is applied to a list of            *)
(* CommandSpecs drawn from SpecLists.                                      *)
(***************************************************************************)
\* specs: a glob with two matches and arguments, the same without arguments,
\* a name matching no file without and with arguments, a malformed glob, an
\* existing file with arguments, the empty spec, a spec starting with a space
SpecStrings ==
    { <<"g", "*", " ", "a">>, <<"g", "*">>, <<"c">>, <<"c", " ", "x">>, <<"[">>,
      <<"p", " ", "x">>, <<>>, <<" ", "a">> }

RECURSIVE ListsUpTo(_)
ListsUpTo(n) ==
    IF n = 0 THEN {<<>>}
    ELSE LET shorter == ListsUpTo(n - 1)
         IN  shorter \cup {Append(l, x) : l \in shorter, x \in SpecStrings}

SpecLists == ListsUpTo(MaxSpecs)

\* the functions are applied to an Exec2 as NewExec2 returns it
ResolveInit ==
    /\ Loaded(CHOOSE k \in Configs : k.Commands = <<>> /\ ~k.nagios)
    /\ specList \in SpecLists
    /\ resolved = Unresolved
    /\ buf = <<>>
    /\ shown = Unshown

\* Gather, lines 231-260, over specList
ResolveStatic ==
    /\ "static" \notin resolved.did
    /\ resolved' = [resolved EXCEPT !.static = GatherResolve(specList),
                                    !.did = @ \cup {"static"}]
    /\ UNCHANGED <<config, calls, exec2Static, exec2Dynamic, mutext, inited,
                   gatherSide, writeSide, specList, buf, shown>>

\* readExCommandsLock, lines 280-310, over specList
ResolveDynamic ==
    /\ "dynamic" \notin resolved.did
    /\ resolved' = [resolved EXCEPT !.dynamic = ExResolve(specList),
                                    !.did = @ \cup {"dynamic"}]
    /\ UNCHANGED <<config, calls, exec2Static, exec2Dynamic, mutext, inited,
                   gatherSide, writeSide, specList, buf, shown>>

ResolveNext == ResolveStatic \/ ResolveDynamic

ResolveSpec == ResolveInit /\ [][ResolveNext]_vars

(***************************************************************************)
(* truncate on its own: CommandRunner.Run hands it the stderr of a command *)
(* when that is not empty.                                                 *)
(***************************************************************************)
Marker == <<".", ".", ".">>

\* bytes.IndexByte(b, ch): the 0-based index of the first ch, -1 if none
IndexByte(b, ch) ==
    IF \E i \in 1..Len(b) : b[i] = ch
    THEN (CHOOSE i \in 1..Len(b) : b[i] = ch /\ \A j \in 1..(i - 1) : b[j] # ch) - 1
    ELSE -1

\* truncate, lines 114-132
truncate(b) ==
    LET overCap == Len(b) > MaxStderrBytes
        capped == IF overCap THEN SubSeq(b, 1, MaxStderrBytes) ELSE b
        i == IndexByte(capped, "\n")
        didTruncate == overCap \/ (i > 0 /\ i < Len(capped) - 1)
        cut == IF i > 0 THEN SubSeq(capped, 1, i) ELSE capped
    IN  IF didTruncate THEN cut \o Marker ELSE cut

\* a buffer of n bytes with newlines at the (1-based) positions in nls
Buffer(n, nls) == [i \in 1..n |-> IF i \in nls THEN "\n" ELSE "e"]

\* lengths near zero and near the cap; newline positions near both ends of
\* the buffer and near the cap
BufferLengths ==
    (0..(Slack + 1)) \cup ((MaxStderrBytes - Slack)..(MaxStderrBytes + Slack))
NewlinePositions(n) ==
    ((1..Slack) \cup ((n - 1)..n) \cup ((MaxStderrBytes - 1)..(MaxStderrBytes + 1)))
        \cap (1..n)
Buffers ==
    {Buffer(n, {}) : n \in BufferLengths}
        \cup UNION {{Buffer(n, {p}) : p \in NewlinePositions(n)} : n \in BufferLengths}
        \cup UNION {{Buffer(n, {p, n}) : p \in NewlinePositions(n)} : n \in BufferLengths}

TruncInit ==
    /\ Loaded(CHOOSE k \in Configs : k.Commands = <<>> /\ ~k.nagios)
    /\ specList = <<>>
    /\ resolved = Unresolved
    /\ buf \in Buffers
    /\ shown = Unshown

\* CommandRunner.Run, lines 106-109: stderr is truncated when it is not empty
\* (removeCarriageReturns returns its argument unless the build is for Windows)
RunStderr ==
    /\ shown = Unshown
    /\ shown' = IF Len(buf) > 0 THEN truncate(buf) ELSE buf
    /\ UNCHANGED <<config, calls, exec2Static, exec2Dynamic, mutext, inited,
                   gatherSide, writeSide, specList, resolved, buf>>

TruncNext == RunStderr

TruncSpec == TruncInit /\ [][TruncNext]_vars

(***************************************************************************)
(* Properties.                                                             *)
(***************************************************************************)
RECURSIVE SumCopies(_, _)
SumCopies(S, bag) ==
    IF S = {} THEN 0
    ELSE LET e == CHOOSE x \in S : TRUE
         IN  CopiesIn(e, bag) + SumCopies(S \ {e}, bag)

\* what the accumulator of the cycle was handed by goroutine i
MetricsOf(i) == SumCopies({m \in BagToSet(acc.metrics) : m.unit = i}, acc.metrics)
ErrorsOf(i) == SumCopies({e \in BagToSet(acc.errors) : e.unit = i}, acc.errors)

\* every goroutine of the cycle has finished and Gather has not yet returned
CycleComplete == gather.pc = "waiting" /\ Unfinished = {}

\* C1: every tag lookup a cycle makes in addExMetric finds the dynamic
\* binding that the cycle's snapshot read (readExCommandsLock) found: the
\* binding a cycle sees never changes during the cycle.
C1_CycleSeesOneBinding ==
    \A i \in DOMAIN units : units[i].pc = "locked" => ex_cmds = gather.snap

\* the exPorts lists a Write call can generate from, and none
RoundPorts == {<<>>} \cup {ExPorts(b) : b \in Batches}

\* the dynamic list and the dynamic binding are those of one generation round
OneRound ==
    \E ports \in RoundPorts :
        /\ ExCommands = PatternCommands(Pattern, ports)
        /\ ex_cmds = PatternBinding(Pattern, ports, EmptyMap)

\* C2: whenever a reader holds the read lock (Gather in readExCommandsLock,
\* a goroutine in addExMetric), ExCommands and ex_cmds are both those of one
\* Write call, or both still initial: never a mix of two rounds, never the
\* cleared list of one round with the binding of another.
C2_ReadersSeeOneRound == mutext.readers > 0 => OneRound

\* a reader holds the lock over a replaced dynamic set while a Write waits
C2_Witness == mutext.readers > 0 /\ mutext.w # 0 /\ ExCommands # <<>>

\* the parameter of the pattern-generated CommandSpec a goroutine's command
\* was resolved from (NoPort: the spec was not generated from the pattern)
PatternParam(u) ==
    IF u.origin = "static" THEN Lookup(cmds, u.spec) ELSE Lookup(gather.snap, u.spec)

\* C3: every metric forwarded to the sink that came from a command resolved
\* from a pattern-generated CommandSpec with parameter p carries port = p.
C3_PatternMetricsTagged ==
    \A m \in BagToSet(acc.metrics) :
        PatternParam(units[m.unit]) # NoPort => m.port = PatternParam(units[m.unit])

\* the tag the bindings prescribe for a command: the dynamic value, else the
\* static value, else none
ExpectedPort(command) ==
    IF command \in DOMAIN ex_cmds THEN ex_cmds[command]
    ELSE IF command \in DOMAIN cmds THEN cmds[command]
    ELSE NoPort

\* C4: when a goroutine tags and forwards a metric of command c, the sink
\* receives exactly one more metric, carrying the port the bindings hold for
\* c at that time (the dynamic one when both bind c, no port when neither
\* does), and nothing else is reported.
C4_TagFromBindings ==
    [][\A i \in DOMAIN units :
          (units[i].pc = "locked" /\ i \in DOMAIN units' /\ units'[i].pc # "locked")
          => /\ acc'.metrics = acc.metrics (+)
                    SetToBag({[unit |-> i, cmd |-> units[i].cmd,
                               port |-> ExpectedPort(units[i].cmd)]})
             /\ acc'.errors = acc.errors]_vars

\* a forwarded metric whose command both bindings hold, one whose command
\* only the dynamic binding held, and one that no binding held
C4_Witness ==
    /\ \E m \in BagToSet(acc.metrics) :
          m.port # NoPort /\ m.cmd \in DOMAIN cmds /\ m.cmd \in DOMAIN ex_cmds
    /\ \E m \in BagToSet(acc.metrics) : m.port # NoPort /\ m.cmd \notin DOMAIN cmds
    /\ \E m \in BagToSet(acc.metrics) : m.port = NoPort

\* C5: when an effective Write call returns, ExCommands is exactly the
\* sequence of Pattern-substituted commands of its exPorts, in order, and
\* ex_cmds binds exactly those commands, each to its value: nothing of an
\* earlier dynamic set remains.
C5_WriteReplacesAll ==
    [][\A w \in Writers :
          (writes[w].pc = "filled" /\ writes'[w].pc = "done")
          => LET ports == writes[w].ports
                 gen == [k \in 1..Len(ports) |-> Sprintf(Pattern, ports[k])]
             IN  /\ ExCommands' = gen
                 /\ DOMAIN ex_cmds' = {gen[k] : k \in 1..Len(ports)}
                 /\ \A k \in 1..Len(ports) : ex_cmds'[gen[k]] = ports[k]]_vars

\* two effective Write calls have returned, the later one over the set of
\* the earlier one
C5_Witness ==
    /\ writes[1].pc = "done"
    /\ writes[2].pc = "done"
    /\ ExCommands # <<>>
    /\ DOMAIN ex_cmds = {ExCommands[k] : k \in 1..Len(ExCommands)}

\* C6: a Write call whose batch yields no float64 value, or that is made
\* while Pattern is empty, leaves ExCommands and ex_cmds as they were and
\* does not touch the mutex: it returns without entering Lock.
C6_EmptyWriteIsNoOp ==
    [][\A w \in Writers, b \in Batches :
          (WriteStart(w, b) /\ (Pattern = <<>> \/ ExPorts(b) = <<>>))
          => /\ ExCommands' = ExCommands
             /\ ex_cmds' = ex_cmds
             /\ mutext' = mutext
             /\ writes'[w].pc = "noop"]_vars

\* a Write call has returned without effect and a non-empty dynamic set,
\* installed by another call, is in place
C6_Witness ==
    /\ \E w \in Writers : writes[w].pc = "noop"
    /\ \E w \in Writers : writes[w].pc = "done"
    /\ mutext.w = 0
    /\ ExCommands # <<>>
    /\ ex_cmds # EmptyMap

NoWriteInProgress == \A w \in Writers : writes[w].pc \in {"idle", "noop", "done"}

\* C7: once the Write calls made have all returned, the dynamic set
\* (ExCommands and ex_cmds together) is exactly the set generated by the
\* call that took the write lock last, never a merge of two calls' output.
C7_LastWriterWins ==
    (NoWriteInProgress /\ lastLocked # NoWrite)
    => /\ ExCommands = PatternCommands(Pattern, lastLocked)
       /\ ex_cmds = PatternBinding(Pattern, lastLocked, EmptyMap)

\* every Write call was effective and has returned; the set is the last one's
C7_Witness ==
    /\ \A w \in Writers : writes[w].pc = "done"
    /\ ExCommands = PatternCommands(Pattern, lastLocked)
    /\ Len(lastLocked) = 2

\* a finished goroutine reported its own result: one error and no metric, or
\* no error and every metric of its list
Reported(i) ==
    \/ ErrorsOf(i) = 1 /\ MetricsOf(i) = 0
    \/ ErrorsOf(i) = 0 /\ MetricsOf(i) = units[i].n + units[i].extra

TimedOut(i) == units[i].pc = "done" /\ units[i].runErr = "timeout"

\* C8 as stated: a command whose run ends with a timeout contributes zero
\* metrics and exactly one error to the sink, and every other command of the
\* cycle still runs to completion and reports its own result.
C8_TimeoutOneError ==
    /\ \A i \in DOMAIN units : TimedOut(i) => ErrorsOf(i) = 1 /\ MetricsOf(i) = 0
    /\ CycleComplete => \A j \in DOMAIN units : Reported(j)

\* C8, amended: with a parser that is not the nagios parser, a command whose
\* run ends with a timeout contributes zero metrics and exactly one error to
\* the sink; with any parser every command of the cycle runs to completion
\* and reports its own result.
C8_TimeoutOneErrorNotNagios ==
    /\ ~isNagios =>
          \A i \in DOMAIN units : TimedOut(i) => ErrorsOf(i) = 1 /\ MetricsOf(i) = 0
    /\ CycleComplete => \A j \in DOMAIN units : Reported(j)

\* a cycle is complete in which one command timed out and another command
\* forwarded a metric
C8_Witness ==
    /\ ~isNagios
    /\ CycleComplete
    /\ \E i, j \in DOMAIN units :
          /\ TimedOut(i)
          /\ ErrorsOf(i) = 1
          /\ units[j].runErr = "nil"
          /\ MetricsOf(j) >= 1

\* C9: Gather returns only after every goroutine it launched has finished:
\* none is still running when it returns, the count given to wg.Add is the
\* number of goroutines launched, the counter is the number of goroutines
\* that have not finished, and each goroutine calls Done exactly once.
C9_JoinBarrier ==
    /\ gather.late = 0
    /\ gather.wg >= 0
    /\ gather.pc = "waiting" =>
          /\ gather.added = Len(units)
          /\ gather.wg = Cardinality(Unfinished)
    /\ \A i \in DOMAIN units :
          /\ units[i].dones <= 1
          /\ units[i].pc = "done" <=> units[i].dones = 1

\* Gather has returned from its last cycle, which launched three goroutines
C9_Witness ==
    /\ gather.pc = "returned"
    /\ gather.added >= 3
    /\ gather.late = 0
    /\ gatherCalls = MaxCycles

\* C10: every Gather call eventually returns, and returns nil, whatever glob
\* errors, failed runs, timeouts and parse failures occur in the cycle and
\* whatever Write calls run meanwhile.
C10_GatherReturnsNil ==
    (gather.pc \in {"resolved", "rlocked", "waiting"})
        ~> (gather.pc = "returned" /\ gather.ret = "nil")

\* Gather has returned nil from a cycle with reported errors while a Write
\* call holds the lock
C10_Witness ==
    /\ gather.pc = "returned"
    /\ gather.ret = "nil"
    /\ gather.errs >= 2
    /\ \E w \in Writers : writes[w].pc = "filled"

\* the operations that may run at the same time, and what each touches next
Operations == ({"Gather"} \X Callers) \cup ({"Write"} \X Writers)
Access(op) == IF op[1] = "Gather" THEN CallAccess(op[2]) ELSE WriteAccess(op[2])
DynamicFields == {"ExCommands", "ex_cmds"}

\* C11: after Init the only fields Gather and Write write are ExCommands and
\* ex_cmds, every access to those two is made holding the mutex, and no
\* other field is written by one operation while another running operation
\* reads or writes it.
C11_OnlyDynamicSetShared ==
    /\ \A op \in Operations : \A x \in Access(op) :
          /\ x.write => x.field \in DynamicFields
          /\ x.field \in DynamicFields => x.locked
    /\ \A a, b \in Operations : a # b =>
          \A x \in Access(a), y \in Access(b) :
              (x.field = y.field /\ (x.write \/ y.write)) => (x.locked /\ y.locked)

\* how many entries of list l are the string c
Count(c, l) == Cardinality({i \in 1..Len(l) : l[i] = c})

\* some Gather call is past the fold and none is inside it
FoldOver ==
    /\ \E g \in Callers : calls[g].pc \in {"range", "folded"}
    /\ \A g \in Callers : calls[g].pc \notin {"load", "store", "clear"}

\* C12: the legacy Command is folded into Commands exactly once, also when
\* Gather calls overlap: it is never in Commands twice, nothing else is
\* appended in its place, and once the calls made are past the fold it is in
\* Commands one time and Command is empty.
C12_LegacyFoldedOnce ==
    legacy # <<>> =>
        /\ Count(legacy, Commands) <= 1
        /\ Count(<<>>, Commands) = 0
        /\ FoldOver => (Command = <<>> /\ Count(legacy, Commands) = 1)

\* the ports of the configuration and the static commands they generate
StaticPorts == IF Pattern # <<>> /\ Ports # <<>> THEN Split(Ports) ELSE <<>>
StaticGenerated == {Sprintf(Pattern, StaticPorts[i]) : i \in 1..Len(StaticPorts)}

\* C13: from the first Init on, cmds is the binding generated from Pattern
\* and Ports (empty when either is empty) and the generated static commands
\* are in Commands once each: no repeated Init, Gather or Write changes
\* either.
C13_StaticBindingBuiltOnce ==
    inited =>
        /\ DOMAIN cmds = StaticGenerated
        /\ \A i \in 1..Len(StaticPorts) :
              cmds[Sprintf(Pattern, StaticPorts[i])] = StaticPorts[i]
        /\ Cardinality({i \in 1..Len(Commands) : Commands[i] \in StaticGenerated})
              = Len(StaticPorts)

\* two static commands were generated; every Gather call and both Write
\* calls have since run
C13_Witness ==
    /\ inited
    /\ Cardinality(DOMAIN cmds) = 2
    /\ gatherCalls = MaxCycles
    /\ gather.pc = "returned"
    /\ \A w \in Writers : writes[w].pc = "done"

\* C14: whenever no Write call is inside its locked section, every key of
\* ex_cmds and of cmds is Pattern with the bound value substituted, and the
\* strings of ExCommands are exactly the keys of ex_cmds: no dynamic command
\* without a binding, no dynamic binding without a command.
C14_KeysAreGenerated ==
    (\A w \in Writers : writes[w].pc # "filled") =>
        /\ \A c \in DOMAIN ex_cmds : c = Sprintf(Pattern, ex_cmds[c])
        /\ \A c \in DOMAIN cmds : c = Sprintf(Pattern, cmds[c])
        /\ {ExCommands[i] : i \in 1..Len(ExCommands)} = DOMAIN ex_cmds

\* a dynamic set of two commands and a static binding are in place, a reader
\* holds the lock and a Write call waits for it
C14_Witness ==
    /\ Cardinality(DOMAIN ex_cmds) = 2
    /\ cmds # EmptyMap
    /\ mutext.readers > 0
    /\ \E w \in Writers : writes[w].pc = "pending"

\* the reference resolver: the first token of a spec is what precedes its
\* first space, the rest is what follows it
FirstSpace(spec) ==
    IF \E i \in 1..Len(spec) : spec[i] = " "
    THEN CHOOSE i \in 1..Len(spec) : spec[i] = " " /\ \A j \in 1..(i - 1) : spec[j] # " "
    ELSE 0
Token(spec) == IF FirstSpace(spec) = 0 THEN spec ELSE SubSeq(spec, 1, FirstSpace(spec) - 1)
Rest(spec) == SubSeq(spec, FirstSpace(spec) + 1, Len(spec))

RefOne(spec) ==
    LET ms == Glob(Token(spec))
    IN  IF GlobFails(Token(spec)) THEN <<>>
        ELSE IF Len(ms) = 0 THEN <<spec>>
        ELSE [k \in 1..Len(ms) |->
                IF FirstSpace(spec) = 0 THEN ms[k] ELSE ms[k] \o <<" ">> \o Rest(spec)]

RECURSIVE RefAll(_)
RefAll(l) == IF l = <<>> THEN <<>> ELSE RefOne(Head(l)) \o RefAll(Tail(l))

RefErrors(l) == SelectSeq(l, LAMBDA spec : GlobFails(Token(spec)))

GlobError(spec) == [unit |-> 0, kind |-> "glob", about |-> spec]

\* C16: when Gather has resolved both lists and launches the goroutines,
\* every spec whose glob fails has contributed no command and one error per
\* occurrence, nothing else has been reported, and every other spec of the
\* static and the dynamic list has its commands launched; when the cycle is
\* complete each of them has been run.
C16_GlobErrorSkipsOneSpec ==
    /\ [][(gather.pc = "rlocked" /\ gather'.pc = "waiting") =>
            LET all == Commands \o ExCommands
                bad == {i \in 1..Len(all) : GlobFails(Token(all[i]))}
            IN  /\ \A i \in bad :
                      CopiesIn(GlobError(all[i]), acc'.errors) = Count(all[i], all)
                /\ BagCardinality(acc'.errors) = Cardinality(bad)
                /\ \A u \in DOMAIN units' : \A i \in bad : units'[u].spec # all[i]
                /\ \A i \in (1..Len(all)) \ bad :
                      \E u \in DOMAIN units' : units'[u].spec = all[i]]_vars
    /\ [](CycleComplete => \A u \in DOMAIN units : units[u].runErr # "-")

\* a cycle is complete in which the glob of a dynamic spec failed and a
\* static command forwarded a metric
C16_Witness ==
    /\ CycleComplete
    /\ \E e \in BagToSet(acc.errors) : e.kind = "glob" /\ e.about \in DOMAIN gather.snap
    /\ \E u \in DOMAIN units : units[u].origin = "static" /\ MetricsOf(u) >= 1

\* the stated policy: the 1-based position of the first newline (0: none),
\* the two cuts, and what is kept
FirstNewline(b) == IndexByte(b, "\n") + 1
CutAtCap(b) == Len(b) > MaxStderrBytes
CutAtNewline(b) == FirstNewline(b) # 0 /\ FirstNewline(b) < Len(b)
Kept(b) ==
    LET byCap == IF CutAtCap(b) THEN MaxStderrBytes ELSE Len(b)
        byNewline == IF CutAtNewline(b) THEN FirstNewline(b) - 1 ELSE Len(b)
    IN  IF byCap < byNewline THEN byCap ELSE byNewline
Policy(b) ==
    SubSeq(b, 1, Kept(b)) \o (IF CutAtCap(b) \/ CutAtNewline(b) THEN Marker ELSE <<>>)

\* C17: for every non-empty stderr buffer truncate returns what the policy
\* states: cut at the cap when longer than the cap; cut at the first newline
\* when a newline occurs before the last byte; the marker appended exactly
\* when one of the cuts occurred; never more than cap + 3 bytes.
C17_TruncatePolicy ==
    (shown # Unshown /\ Len(buf) > 0) =>
        /\ shown = Policy(buf)
        /\ Len(shown) <= MaxStderrBytes + 3

\* C18: in each cycle one goroutine is launched per resolved command of the
\* static list and the dynamic snapshot, and no command string is run by two
\* goroutines of the same cycle.
C18_OneUnitPerCommand ==
    gather.pc = "waiting" =>
        /\ Len(units) = Len(gather.commands.commands) + Cardinality(
              {u \in DOMAIN units : units[u].origin = "dynamic"})
        /\ \A u \in DOMAIN units : units[u].origin = "static" =>
              units[u].cmd = gather.commands.commands[u]
        /\ \A u, v \in DOMAIN units : u # v => units[u].cmd # units[v].cmd

\* the kinds of the errors goroutine u has reported
ErrorKinds(u) == {e.kind : e \in {x \in BagToSet(acc.errors) : x.unit = u}}

\* C19: a goroutine reports at most one error and never an error and a
\* metric.  Without the nagios parser a failed run is reported once and the
\* parser is not invoked; a parse failure is reported once and nothing is
\* forwarded; with the nagios parser a failed run is not reported and the
\* output is parsed; when run and parse succeed every metric is forwarded
\* once and no error is reported.
C19_AtMostOneErrorNoMix ==
    \A u \in DOMAIN units :
        /\ ErrorsOf(u) <= 1
        /\ ErrorsOf(u) = 1 => MetricsOf(u) = 0
        /\ MetricsOf(u) <= units[u].n + units[u].extra
        /\ units[u].pc = "done" =>
              /\ (~isNagios /\ units[u].runErr # "nil") =>
                    (ErrorKinds(u) = {"run"} /\ ErrorsOf(u) = 1 /\ units[u].parse = "-")
              /\ units[u].parse = "err" =>
                    (ErrorKinds(u) = {"parse"} /\ ErrorsOf(u) = 1 /\ MetricsOf(u) = 0)
              /\ isNagios => ("run" \notin ErrorKinds(u) /\ units[u].parse # "-")
              /\ units[u].parse = "ok" =>
                    (ErrorsOf(u) = 0 /\ MetricsOf(u) = units[u].n + units[u].extra)

\* a complete cycle in which one command failed to run, one failed to parse
\* and one forwarded a metric
C19_Witness ==
    /\ CycleComplete
    /\ \E u, v, x \in DOMAIN units :
          /\ ErrorKinds(u) = {"run"}
          /\ ErrorKinds(v) = {"parse"}
          /\ units[x].parse = "ok" /\ MetricsOf(x) = 1

UnitIds == 1..MaxUnits

\* the goroutines inside addExMetric, and Gather inside readExCommandsLock
ReadLockHolders ==
    Cardinality({u \in DOMAIN units : units[u].pc = "locked"})
        + (IF gather.pc = "rlocked" THEN 1 ELSE 0)

\* every call made has returned
Quiescent ==
    /\ gather.pc \in {"idle", "returned"}
    /\ units = <<>>
    /\ \A w \in Writers : writes[w].pc \in {"idle", "noop", "done"}
    /\ mutext = [readers |-> 0, w |-> 0]

\* C20: Gather cycles and Write calls never deadlock.  The read lock is held
\* only by Gather inside readExCommandsLock and by goroutines inside
\* addExMetric, once each: never while Gather waits on its WaitGroup, never
\* while a command runs.  No state is stuck with a call unfinished.  Under
\* fair scheduling a Write that asked for the write lock acquires and
\* releases it, and a goroutine about to tag gets its read lock.
C20_NoDeadlock ==
    /\ [](Len(units) <= MaxUnits /\ mutext.readers = ReadLockHolders)
    /\ []((inited /\ ~ENABLED Next) => Quiescent)
    /\ \A w \in Writers :
          (writes[w].pc = "pending") ~> (writes[w].pc = "filled")
    /\ \A w \in Writers :
          (writes[w].pc = "filled") ~> (writes[w].pc = "done" /\ mutext.w # w)
    /\ \A u \in UnitIds :
          (u \in DOMAIN units /\ units[u].pc = "tag")
              ~> (u \in DOMAIN units /\ units[u].pc = "locked")

\* a Write call waits for the lock that one goroutine holds for reading,
\* while another goroutine waits to tag and a third still runs its command
C20_Witness ==
    /\ \E w \in Writers : writes[w].pc = "pending" /\ mutext.w = w
    /\ \E u, v, x \in DOMAIN units :
          /\ units[u].pc = "locked"
          /\ units[v].pc = "tag"
          /\ units[x].pc = "run"
    /\ gather.pc = "waiting"

=============================================================================
